---- MODULE Spec2Model ----
(***************************************************************************)
(* Model of Poly::Term and Poly::Polynomial                                *)
(* (src/Data-Structure/LinkList/polynomial/polynomial.h).                  *)
(*                                                                         *)
(* A coefficient is a double.  The model keeps it as an integer count of   *)
(* 1/Unit, so that with Unit = 2 the value 0.5 is 1, 1.0 is 2 and -1.5 is  *)
(* -3.  Sums and negations of such values are exact in a double, and the   *)
(* double -> int conversion made by Term::setCoef(int) is the truncation   *)
(* toward zero computed by ToInt.  Evaluation points are integer-valued    *)
(* doubles, so the products of Term::cal are exact as well.                *)
(***************************************************************************)
EXTENDS Integers, Sequences, FiniteSets, TLC

\* Bounds of the model: the largest exponent handed to Term(c, e), the
\* number of terms the Polynomial objects hold together, and the largest
\* evaluation point.
MaxExp == 1
MaxTerms == 3
MaxX == 2

\* Number of model units in 1.0 (coef is a double: halves are representable).
Unit == 2

Objs == {"P", "Q"}
\* Coefficients handed to Term(c, e), in units: -0.5, 0 and 0.5.
Coefs == {-1, 0, 1}
Exps == 0..MaxExp
Xs == (-MaxX)..MaxX

\* Term(double c, int e)
Term(c, e) == [coef |-> c, exp |-> e]

Terms == {Term(c, e) : c \in Coefs, e \in Exps}

\* The polynomials of the scenario P = {(2,0),(3,1)}, Q = {(-3,1),(5,2)}.
ScenarioP == <<Term(2 * Unit, 0), Term(3 * Unit, 1)>>
ScenarioQ == <<Term(-3 * Unit, 1), Term(5 * Unit, 2)>>

\* Initializer lists handed to the constructor.
Lists == UNION {[1..n -> Terms] : n \in 0..MaxTerms}

VARIABLES
    live,   \* the Polynomial objects constructed so far
    poly,   \* poly[o]: the member std::vector<Term> poly of object o
    last,   \* the most recent call: [op, a, b]
    ret,    \* the terms returned by the most recent call (<<>>: none)
    threw,  \* whether std::invalid_argument escaped the most recent call
    ta,     \* left operand of a Term-level call
    tb,     \* right operand of a Term-level call
    x,      \* evaluation point
    num     \* the number returned by the most recent cal

vars == <<live, poly, last, ret, threw, ta, tb, x, num>>

----------------------------------------------------------------------------
(* Term *)

\* The implicit double -> int conversion of setCoef(int c): truncation
\* toward zero, then stored back into the double coef.
ToInt(c) == IF c >= 0 THEN (c \div Unit) * Unit ELSE -(((-c) \div Unit) * Unit)

\* void setCoef(int c) { coef = c; }
setCoef(t, c) == [t EXCEPT !.coef = ToInt(c)]

\* Term::operator+ with the zero sum keeping the shared exponent.
TermPlusKeepsExp(a, b) ==
    IF a.exp # b.exp THEN [threw |-> TRUE, val |-> <<>>]
    ELSE [threw |-> FALSE, val |-> <<Term(a.coef + b.coef, a.exp)>>]

\* Term::operator+ : [threw, val], val = <<the term returned>> or <<>>.
TermPlus(a, b) ==
    IF a.exp # b.exp THEN [threw |-> TRUE, val |-> <<>>]
    ELSE IF a.coef + b.coef = 0 THEN [threw |-> FALSE, val |-> <<Term(0, 0)>>]
    ELSE [threw |-> FALSE, val |-> <<Term(a.coef + b.coef, a.exp)>>]

\* Term::operator- : *this + Term(-t.coef, t.exp)
TermMinus(a, b) == TermPlus(a, Term(-b.coef, b.exp))

\* The loop of Term::cal: for (i = 0; i < exp; ++i) x *= x;
RECURSIVE SquareLoop(_, _, _)
SquareLoop(v, i, e) == IF i < e THEN SquareLoop(v * v, i + 1, e) ELSE v

\* b to the power n.
RECURSIVE Power(_, _)
Power(b, n) == IF n <= 0 THEN 1 ELSE b * Power(b, n - 1)

\* Term::cal computing coef * x^exp.
TermCalPower(t, v) == t.coef * Power(v, t.exp)

\* Term::cal
TermCal(t, v) == t.coef * SquareLoop(v, 0, t.exp)

----------------------------------------------------------------------------
(* Polynomial *)

\* The comparators handed to std::sort: "asc" is the lambda of the
\* constructors and the default of sort(), lhs.getExp() < rhs.getExp();
\* "desc" is a caller's comparator for sort(cmp).
Cmps == {"asc", "desc"}

ExpLess(cmp, a, b) == IF cmp = "asc" THEN a.exp < b.exp ELSE a.exp > b.exp

IsSortedBy(cmp, s) ==
    \A i \in 1..Len(s), j \in 1..Len(s) : i < j => ~ExpLess(cmp, s[j], s[i])

\* The rearrangements of n positions.
Perms ==
    [n \in 0..(MaxTerms + 1) |->
        {f \in [1..n -> 1..n] : \A i \in 1..n, j \in 1..n : f[i] = f[j] => i = j}]

\* std::sort(poly.begin(), poly.end(), cmp) is not stable: its outcomes are
\* all the arrangements of the terms that the comparator orders.
SortOutcomes(cmp, l) ==
    {s \in {[i \in 1..Len(l) |-> l[f[i]]] : f \in Perms[Len(l)]} : IsSortedBy(cmp, s)}

\* Branch conditions of operator+ gone wrong: <= for <, >= for >, the
\* second branch lost, and the test of the sum lost.
TakeThisOnTie(a, b) == a.exp <= b.exp
TakeOtherOnTie(a, b) == a.exp >= b.exp
TakeOtherNever(a, b) == FALSE
KeepSumAlways(a, b) == TRUE

\* The three branch conditions of operator+'s main loop.
TakeThis(a, b) == a.exp < b.exp
TakeOther(a, b) == a.exp > b.exp
KeepSum(a, b) == a.coef + b.coef # 0

\* Polynomial::operator+ from cursors i (this) and j (other), res built so far.
RECURSIVE Merge(_, _, _, _, _)
Merge(a, b, i, j, res) ==
    IF i <= Len(a) /\ j <= Len(b) THEN
        IF TakeThis(a[i], b[j]) THEN Merge(a, b, i + 1, j, Append(res, a[i]))
        ELSE IF TakeOther(a[i], b[j]) THEN Merge(a, b, i, j + 1, Append(res, b[j]))
        ELSE IF KeepSum(a[i], b[j]) THEN
            LET s == TermPlus(a[i], b[j])
            IN  IF s.threw THEN [threw |-> TRUE, val |-> <<>>]
                ELSE Merge(a, b, i + 1, j + 1, res \o s.val)
        ELSE Merge(a, b, i + 1, j + 1, res)
    ELSE IF i <= Len(a) THEN Merge(a, b, i + 1, j, Append(res, a[i]))
    ELSE IF j <= Len(b) THEN Merge(a, b, i, j + 1, Append(res, b[j]))
    ELSE [threw |-> FALSE, val |-> res]

PolyPlus(a, b) == Merge(a, b, 1, 1, <<>>)

\* The loop of operator-: for (auto &t : other.poly) t.setCoef(-t.getCoef());
NegateCopy(b) == [i \in 1..Len(b) |-> setCoef(b[i], -b[i].coef)]

\* Polynomial::operator-
PolyMinus(a, b) == PolyPlus(a, NegateCopy(b))

\* Polynomial::insert, scanning from position i.
RECURSIVE InsertFrom(_, _, _)
InsertFrom(p, t, i) ==
    IF i > Len(p) THEN p
    ELSE IF p[i].exp = t.exp THEN [p EXCEPT ![i] = setCoef(p[i], p[i].coef + t.coef)]
    ELSE IF p[i].exp > t.exp THEN SubSeq(p, 1, i - 1) \o <<t>> \o SubSeq(p, i, Len(p))
    ELSE InsertFrom(p, t, i + 1)

\* insert without the branch that merges into an equal exponent, and with
\* >= in the branch that remains.
RECURSIVE InsertNoMergeFrom(_, _, _)
InsertNoMergeFrom(p, t, i) ==
    IF i > Len(p) THEN p
    ELSE IF p[i].exp >= t.exp THEN SubSeq(p, 1, i - 1) \o <<t>> \o SubSeq(p, i, Len(p))
    ELSE InsertNoMergeFrom(p, t, i + 1)

PolyInsertNoMerge(p, t) == InsertNoMergeFrom(p, t, 1)

PolyInsert(p, t) == InsertFrom(p, t, 1)

\* Polynomial::cal
RECURSIVE CalFrom(_, _, _, _)
CalFrom(p, v, i, result) ==
    IF i > Len(p) THEN result ELSE CalFrom(p, v, i + 1, result + TermCal(p[i], v))

PolyCal(p, v) == CalFrom(p, v, 1, 0)


----------------------------------------------------------------------------
(* Calls on Polynomial objects *)

Call(op, a, b) == [op |-> op, a |-> a, b |-> b]

Other(o) == IF o = "P" THEN "Q" ELSE "P"

TermVars == <<ta, tb, x, num>>

\* Nothing is constructed yet.
Fresh ==
    /\ live = {}
    /\ poly = [o \in Objs |-> <<>>]
    /\ last = Call("start", "P", "P")
    /\ ret = <<>>
    /\ threw = FALSE
    /\ ta = Term(0, 0)
    /\ tb = Term(0, 0)
    /\ x = 0
    /\ num = 0

\* P and Q of the scenario are constructed.
Scenario ==
    /\ live = Objs
    /\ poly = [o \in Objs |-> IF o = "P" THEN ScenarioP ELSE ScenarioQ]
    /\ last = Call("Polynomial(list)", "Q", "Q")
    /\ ret = <<>>
    /\ threw = FALSE
    /\ ta = Term(0, 0)
    /\ tb = Term(0, 0)
    /\ x = 0
    /\ num = 0

Init == Fresh \/ Scenario

\* Polynomial() = default
Default(o) ==
    /\ o \notin live
    /\ live' = live \cup {o}
    /\ poly' = [poly EXCEPT ![o] = <<>>]
    /\ last' = Call("Polynomial()", o, o)
    /\ ret' = <<>>
    /\ threw' = FALSE
    /\ UNCHANGED TermVars

\* explicit Polynomial(const std::initializer_list<Term> &list)
Construct(o, l) ==
    /\ o \notin live
    /\ Len(l) + Len(poly[Other(o)]) <= MaxTerms
    /\ \E s \in SortOutcomes("asc", l) : poly' = [poly EXCEPT ![o] = s]
    /\ live' = live \cup {o}
    /\ last' = Call("Polynomial(list)", o, o)
    /\ ret' = <<>>
    /\ threw' = FALSE
    /\ UNCHANGED TermVars

\* o.sort(cmp)
Sort(o, cmp) ==
    /\ o \in live
    /\ \E s \in SortOutcomes(cmp, poly[o]) : poly' = [poly EXCEPT ![o] = s]
    /\ last' = Call("sort", o, o)
    /\ ret' = <<>>
    /\ threw' = FALSE
    /\ UNCHANGED <<live, TermVars>>

\* a + b: the returned Polynomial is ret; both operands are const.
Add(a, b) ==
    /\ a \in live /\ b \in live
    /\ LET r == PolyPlus(poly[a], poly[b])
       IN  ret' = r.val /\ threw' = r.threw
    /\ last' = Call("operator+", a, b)
    /\ UNCHANGED <<live, poly, TermVars>>

\* a - b: b is passed by value, so the negation is made on a copy.
Sub(a, b) ==
    /\ a \in live /\ b \in live
    /\ LET r == PolyMinus(poly[a], poly[b])
       IN  ret' = r.val /\ threw' = r.threw
    /\ last' = Call("operator-", a, b)
    /\ UNCHANGED <<live, poly, TermVars>>

\* P is the receiver of the additions and subtractions: a call with Q as the
\* receiver is the call of the state in which P and Q are exchanged.
Next ==
    \/ \E o \in Objs \ live : Default(o)
    \/ \E o \in Objs \ live : \E l \in Lists : Construct(o, l)
    \/ \E o \in live, cmp \in Cmps : Sort(o, cmp)
    \/ \E b \in Objs : Add("P", b)
    \/ \E b \in Objs : Sub("P", b)

Spec == Init /\ [][Next]_vars

----------------------------------------------------------------------------
(* Sequences of insert, add and subtract on objects whose initializer     *)
(* lists have pairwise distinct exponents.                                 *)

DistinctExps(l) == \A i \in 1..Len(l), j \in 1..Len(l) : l[i].exp = l[j].exp => i = j

\* The coefficients grow under + and insert: they are kept within -1.0 .. 1.0.
CoefsFit(p) == \A i \in 1..Len(p) : p[i].coef \in (-Unit)..Unit

Fits(o, p) == Len(p) + Len(poly[Other(o)]) <= MaxTerms /\ CoefsFit(p)

ConstructDistinct(o, l) == DistinctExps(l) /\ Construct(o, l)

\* o.insert(t)
Insert(o, t) ==
    /\ o \in live
    /\ Fits(o, PolyInsert(poly[o], t))
    /\ poly' = [poly EXCEPT ![o] = PolyInsert(poly[o], t)]
    /\ last' = Call("insert", o, o)
    /\ ret' = <<>>
    /\ threw' = FALSE
    /\ UNCHANGED <<live, TermVars>>

\* The assignment a = r of operator=(Polynomial other): swap(poly, other.poly).
\* When the right-hand side threw, the assignment is not reached.
Assign(a, r) ==
    /\ threw' = r.threw
    /\ ~r.threw => Fits(a, r.val)
    /\ poly' = IF r.threw THEN poly ELSE [poly EXCEPT ![a] = r.val]
    /\ ret' = <<>>

\* a = a + b
AddAssign(a, b) ==
    /\ a \in live /\ b \in live
    /\ Assign(a, PolyPlus(poly[a], poly[b]))
    /\ last' = Call("= operator+", a, b)
    /\ UNCHANGED <<live, TermVars>>

\* a = a - b
SubAssign(a, b) ==
    /\ a \in live /\ b \in live
    /\ Assign(a, PolyMinus(poly[a], poly[b]))
    /\ last' = Call("= operator-", a, b)
    /\ UNCHANGED <<live, TermVars>>

NextSeq ==
    \/ \E o \in Objs \ live : Default(o)
    \/ \E o \in Objs \ live : \E l \in Lists : ConstructDistinct(o, l)
    \/ \E o \in live, t \in Terms : Insert(o, t)
    \/ \E a \in live, b \in live : AddAssign(a, b)
    \/ \E a \in live, b \in live : SubAssign(a, b)

SpecSeq == Fresh /\ [][NextSeq]_vars

----------------------------------------------------------------------------
(* Calls on two Terms *)

ScenarioTerms ==
    {ScenarioP[i] : i \in 1..Len(ScenarioP)} \cup {ScenarioQ[i] : i \in 1..Len(ScenarioQ)}

InitTerm ==
    /\ live = {}
    /\ poly = [o \in Objs |-> <<>>]
    /\ last = Call("start", "P", "P")
    /\ ret = <<>>
    /\ threw = FALSE
    /\ ta \in Terms \cup ScenarioTerms
    /\ tb \in Terms \cup ScenarioTerms
    /\ x = 0
    /\ num = 0

\* ta + tb
TPlus ==
    /\ LET r == TermPlus(ta, tb)
       IN  ret' = r.val /\ threw' = r.threw
    /\ last' = Call("Term::operator+", "P", "P")
    /\ UNCHANGED <<live, poly, TermVars>>

\* ta - tb
TMinus ==
    /\ LET r == TermMinus(ta, tb)
       IN  ret' = r.val /\ threw' = r.threw
    /\ last' = Call("Term::operator-", "P", "P")
    /\ UNCHANGED <<live, poly, TermVars>>

NextTerm == TPlus \/ TMinus

SpecTerm == InitTerm /\ [][NextTerm]_vars

----------------------------------------------------------------------------
(* Evaluation of a constructed Polynomial P and of its terms at x *)

\* Term(3, 2), of the example evaluated at x = 2.
ExampleTerm == Term(3 * Unit, 2)

Constructed ==
    UNION {SortOutcomes("asc", l) : l \in Lists \cup {ScenarioP, ScenarioQ, <<ExampleTerm>>}}

InitEval ==
    /\ live = {"P"}
    /\ poly \in {[o \in Objs |-> IF o = "P" THEN p ELSE <<>>] : p \in Constructed}
    /\ last = Call("Polynomial(list)", "P", "P")
    /\ ret = <<>>
    /\ threw = FALSE
    /\ ta = Term(0, 0)
    /\ tb = Term(0, 0)
    /\ x \in Xs
    /\ num = 0

\* poly[i].cal(x) for a term of P, as in the loop of Polynomial::cal.
TermEval(i) ==
    /\ ta' = poly["P"][i]
    /\ num' = TermCal(poly["P"][i], x)
    /\ last' = Call("Term::cal", "P", "P")
    /\ UNCHANGED <<live, poly, ret, threw, tb, x>>

\* P.cal(x)
PolyEval ==
    /\ num' = PolyCal(poly["P"], x)
    /\ last' = Call("Polynomial::cal", "P", "P")
    /\ UNCHANGED <<live, poly, ret, threw, ta, tb, x>>

NextEval ==
    \/ \E i \in 1..Len(poly["P"]) : TermEval(i)
    \/ PolyEval

SpecEval == InitEval /\ [][NextEval]_vars

----------------------------------------------------------------------------
(* Properties *)

LastIs(op) == last.op = op

\* The operands of the most recent call on Polynomials.
This == poly[last.a]
That == poly[last.b]

SortedAscending(p) == \A i \in 1..Len(p), j \in 1..Len(p) : i < j => p[i].exp <= p[j].exp
NoRepeatedExp(p) == \A i \in 1..Len(p), j \in 1..Len(p) : p[i].exp = p[j].exp => i = j
NoZeroCoef(p) == \A i \in 1..Len(p) : p[i].coef # 0
Canonical(p) == SortedAscending(p) /\ NoRepeatedExp(p) /\ NoZeroCoef(p)

ExpsOf(p) == {p[i].exp : i \in 1..Len(p)}
TermsOf(p) == {p[i] : i \in 1..Len(p)}
Count(p, e) == Cardinality({i \in 1..Len(p) : p[i].exp = e})
\* The coefficient of exponent e in p, an absent exponent counting as 0.
CoefOf(p, e) ==
    IF e \in ExpsOf(p) THEN p[CHOOSE i \in 1..Len(p) : p[i].exp = e].coef ELSE 0

\* C1 as stated: whatever P and Q the constructors and insert built (they
\* are sorted ascending, possibly with repeated exponents and with zero
\* coefficients), P + Q is sorted ascending by exponent, repeats no exponent
\* and holds no zero coefficient.
C1_AddAlwaysCanonical ==
    (LastIs("operator+") /\ SortedAscending(This) /\ SortedAscending(That)) =>
        Canonical(ret)

\* C1 amended: when P and Q are each sorted ascending with distinct exponents
\* and non-zero coefficients, P + Q is sorted ascending by exponent, repeats
\* no exponent and holds no zero coefficient.
C1_AddOfCanonicalIsCanonical ==
    (LastIs("operator+") /\ Canonical(This) /\ Canonical(That)) => Canonical(ret)

\* Two canonical operands were added, a pair of their terms cancelled and
\* another term is in the result.
C1_Witness ==
    /\ LastIs("operator+") /\ Canonical(This) /\ Canonical(That)
    /\ (ExpsOf(This) \cap ExpsOf(That)) \ ExpsOf(ret) # {}
    /\ Len(ret) >= 1

\* C2: for canonical P and Q, P + Q holds a term of exponent e exactly when the
\* coefficients of e in P and Q sum to non-zero, and that term carries the sum;
\* the scenario's P + Q is {(2,0),(5,2)}.
C2_AddSumsCoefficients ==
    (LastIs("operator+") /\ Canonical(This) /\ Canonical(That)) =>
        /\ ~threw
        /\ \A e \in ExpsOf(This) \cup ExpsOf(That) \cup ExpsOf(ret) :
            /\ Count(ret, e) = IF CoefOf(This, e) + CoefOf(That, e) # 0 THEN 1 ELSE 0
            /\ CoefOf(ret, e) = CoefOf(This, e) + CoefOf(That, e)
        /\ (This = ScenarioP /\ That = ScenarioQ) =>
            ret = <<Term(2 * Unit, 0), Term(5 * Unit, 2)>>

\* The scenario's P + Q was computed.
C2_Witness ==
    /\ LastIs("operator+") /\ This = ScenarioP /\ That = ScenarioQ
    /\ ret = <<Term(2 * Unit, 0), Term(5 * Unit, 2)>>

\* C3: P + Q is, term by term, Q + P.
C3_AddCommutes ==
    LastIs("operator+") =>
        /\ ret = PolyPlus(That, This).val
        /\ threw = PolyPlus(That, This).threw

\* Two different operands with a common exponent were added, one of them
\* repeating an exponent.
C3_Witness ==
    /\ LastIs("operator+") /\ This # That
    /\ ExpsOf(This) \cap ExpsOf(That) # {}
    /\ ~NoRepeatedExp(This)
    /\ Len(ret) >= 2

\* C4 as stated: P - P is the empty polynomial, whatever the coefficients.
C4_SelfSubtractIsEmpty == (LastIs("operator-") /\ last.a = last.b) => ret = <<>>

\* C7: std::invalid_argument never escapes operator+ or operator-.
C7_AddNeverThrows == (LastIs("operator+") \/ LastIs("operator-")) => ~threw

\* An operand that is not sorted ascending was added to another one and a
\* term of the result is a sum made by Term::operator+.
C7_Witness ==
    /\ LastIs("operator+") /\ last.a # last.b /\ ~SortedAscending(This)
    /\ \E k \in 1..Len(ret) : ret[k] \notin TermsOf(This) \cup TermsOf(That)

\* Q with every coefficient replaced by its exact negation.
ExactNegation(q) == [i \in 1..Len(q) |-> Term(-q[i].coef, q[i].exp)]

\* C9 as stated: P - Q is P + N, N being Q with every coefficient exactly
\* negated, and the call leaves P and Q as they were.
C9_SubtractIsAddOfNegation ==
    [][\A b \in Objs :
        Sub("P", b) =>
            /\ ret' = PolyPlus(poly["P"], ExactNegation(poly[b])).val
            /\ poly' = poly]_vars

\* C5 as stated: insert of a term whose exponent is larger than every
\* exponent of the polynomial, or into an empty polynomial, appends the term.
C5_InsertAppendsLargest ==
    [][\A o \in Objs, t \in Terms :
        (Insert(o, t) /\ \A i \in 1..Len(poly[o]) : poly[o][i].exp < t.exp) =>
            poly'[o] = Append(poly[o], t)]_vars

\* The outcome of Term::operator+ on a and b that C6 states.
C6_Outcome(a, b) ==
    IF a.exp # b.exp THEN threw /\ ret = <<>>
    ELSE IF a.coef + b.coef = 0 THEN ~threw /\ ret = <<Term(0, 0)>>
    ELSE ~threw /\ ret = <<Term(a.coef + b.coef, a.exp)>>

C6_Outcomes ==
    /\ LastIs("Term::operator+") => C6_Outcome(ta, tb)
    /\ LastIs("Term::operator-") => C6_Outcome(ta, Term(-tb.coef, tb.exp))

\* C6: Term + Term throws on different exponents, returns (0, 0) on a zero
\* sum and (sum, shared exponent) otherwise; Term - Term is + on the negated
\* operand; neither operand is modified.
C6_TermAddOutcomes == []C6_Outcomes /\ [][ta' = ta /\ tb' = tb]_vars

\* Two terms of a shared non-zero exponent were subtracted and cancelled.
C6_Witness ==
    /\ LastIs("Term::operator-")
    /\ ta.exp = tb.exp /\ ta.exp # 0 /\ ta.coef = tb.coef /\ ta.coef # 0
    /\ ret = <<Term(0, 0)>>

\* The sum over the terms of p of coef * v^(2^exp).
RECURSIVE SumOfTerms(_, _)
SumOfTerms(p, v) ==
    IF p = <<>> THEN 0
    ELSE Head(p).coef * Power(v, Power(2, Head(p).exp)) + SumOfTerms(Tail(p), v)

\* C8: Term(c, e).cal(x) is c * x^(2^e) for e >= 0, Term(3, 2) at 2 being 48,
\* and Polynomial::cal(x) is the sum of that over the terms, 0 when empty.
C8_CalSquaresExpTimes ==
    /\ (LastIs("Term::cal") /\ ta.exp >= 0) =>
        num = ta.coef * Power(x, Power(2, ta.exp))
    /\ (LastIs("Term::cal") /\ ta = ExampleTerm /\ x = 2) => num = 48 * Unit
    /\ LastIs("Polynomial::cal") => num = SumOfTerms(poly["P"], x)
    /\ (LastIs("Polynomial::cal") /\ poly["P"] = <<>>) => num = 0

\* Term(3, 2) was evaluated at 2.
C8_Witness == LastIs("Term::cal") /\ ta = ExampleTerm /\ x = 2 /\ num = 48 * Unit

StrictlyAscending(p) == \A i \in 1..(Len(p) - 1) : p[i].exp < p[i + 1].exp

C10_AllStrictlyAscending == \A o \in Objs : StrictlyAscending(poly[o])

\* insert of t into p, which holds t's exponent at position k, changed the
\* coefficient at k and nothing else.
C10_OnlyCoefChanged(p, q, k) ==
    /\ Len(q) = Len(p)
    /\ \A i \in 1..Len(p) : q[i].exp = p[i].exp /\ (i # k => q[i] = p[i])

\* C10: from empty objects and objects constructed with distinct exponents,
\* every polynomial stays sorted strictly ascending by exponent under insert,
\* add and subtract, and insert on an exponent the polynomial holds changes
\* that term's coefficient only (the size is kept, also on a zero sum).
C10_StrictlyAscendingKept ==
    /\ []C10_AllStrictlyAscending
    /\ [][\A o \in Objs, t \in Terms :
            Insert(o, t) =>
                \A k \in 1..Len(poly[o]) :
                    poly[o][k].exp = t.exp => C10_OnlyCoefChanged(poly[o], poly'[o], k)]_vars

\* insert has left a one-term polynomial, so it met the exponent the
\* polynomial held (into an empty polynomial it inserts nothing, and a new
\* exponent makes two terms), and the coefficient it left is zero; the other
\* object holds two terms.
C10_Witness ==
    /\ LastIs("insert")
    /\ Len(This) = 1 /\ This[1].coef = 0
    /\ Len(poly[Other(last.a)]) = 2

====
